---- MODULE Spec2Model ----
(***************************************************************************)
(* Model of the Noosphere Collective bot (src/main.py): the document       *)
(* renderer fetch_doc_content_and_images, the sliding-window rate limiter  *)
(* check_rate_limit with the two announce commands, and the revert         *)
(* reconciler check_reverts.                                               *)
(*                                                                         *)
(* Strings are sequences of one-character strings, so that Python's        *)
(* str.replace, `in` and str.strip are computed, not assumed.              *)
(***************************************************************************)
EXTENDS Integers, Sequences, FiniteSets, TLC

VARIABLES
    \* ---- document renderer ----
    doc,            \* the document tree returned by the document store
    guild,          \* interaction.guild.roles in enumeration order, or NoGuild
    img_outcome,    \* outcome of requests.get per inline object id in the last render
    rendered,       \* what the last call of fetch_doc_content_and_images returned
    \* ---- rate limiter and announce commands ----
    now,            \* datetime.now().timestamp(), in whole seconds
    usage_tracker,  \* str(user id) -> list of recorded timestamps
    admitted,       \* history: per actor, the timestamps of the requests that passed the check and are younger than the window
    inv,            \* the admitted announce invocation in flight
    reply,          \* the last response the bot gave to an actor
    channel_sent,   \* the sends to the target channel attempted by the last admitted invocation
    doc_fetches,    \* whether the last admitted invocation asked the document store for the document
    last_check,     \* the check_rate_limit call made by the last step, if it made one: actor, time, result, oldest recorded timestamp
    denied,         \* the actors whose last check_rate_limit call returned False
    \* ---- revert reconciler ----
    sheet,          \* the data rows of the complaints sheet (sheet row i + 1 is sheet[i])
    loop,           \* the state of the check_reverts task loop
    tick,           \* the reconcile tick in progress: its position, snapshot and partial message
    sends,          \* per data row, how many direct messages were sent for it
    write_fails,    \* per data row, how many status writes failed
    last_dm         \* the direct message the last step sent, or the error it raised on an empty message or a second start()

renderVars == <<doc, guild, img_outcome, rendered>>
rateVars == <<now, usage_tracker, admitted, inv, reply, channel_sent, doc_fetches, last_check, denied>>
revertVars == <<sheet, loop, tick, sends, write_fails, last_dm>>

vars == <<renderVars, rateVars, revertVars>>

-----------------------------------------------------------------------------
(* Python string operations on sequences of characters.                    *)

RECURSIVE StartsWith(_, _)
StartsWith(s, p) ==
    IF p = <<>> THEN TRUE
    ELSE IF s = <<>> THEN FALSE
    ELSE Head(s) = Head(p) /\ StartsWith(Tail(s), Tail(p))

\* Python `p in s` for strings.
RECURSIVE Contains(_, _)
Contains(s, p) ==
    IF StartsWith(s, p) THEN TRUE
    ELSE IF s = <<>> THEN FALSE
    ELSE Contains(Tail(s), p)

\* Python s.replace(old, new), old non-empty: leftmost non-overlapping occurrences.
RECURSIVE Replace(_, _, _)
Replace(s, old, new) ==
    IF s = <<>> THEN <<>>
    ELSE IF StartsWith(s, old)
         THEN new \o Replace(SubSeq(s, Len(old) + 1, Len(s)), old, new)
         ELSE <<Head(s)>> \o Replace(Tail(s), old, new)

Whitespace == {" ", "\n"}

RECURSIVE LStrip(_)
LStrip(s) == IF s /= <<>> /\ Head(s) \in Whitespace THEN LStrip(Tail(s)) ELSE s

RECURSIVE RStrip(_)
RStrip(s) ==
    IF s /= <<>> /\ s[Len(s)] \in Whitespace THEN RStrip(SubSeq(s, 1, Len(s) - 1)) ELSE s

\* Python s.strip().
Strip(s) == RStrip(LStrip(s))

-----------------------------------------------------------------------------
(* Document renderer: fetch_doc_content_and_images.                        *)
(* An object id and the fixed text "[image:" are single lexemes; all other *)
(* text is character by character.                                         *)

MaxBody == 3

NoGuild == "NoGuild"
NoUri == "NoUri"
ObjIds == {"k1", "k2"}

\* Guild roles the documents of the model can name: "A" is a prefix of "As".
RoleAdmin == [name |-> <<"A">>, id |-> <<"1">>]
RoleAdmins == [name |-> <<"A", "s">>, id |-> <<"2">>]
Guilds ==
    {NoGuild, <<>>, <<RoleAdmin>>, <<RoleAdmins>>,
     <<RoleAdmin, RoleAdmins>>, <<RoleAdmins, RoleAdmin>>}

TextRuns ==
    { <<"H", "i", " ", "@", "A", "s", "\n">>,
      <<"@", "A">>,
      <<"@", "2">>,
      <<" ">> }

Elements ==
    [kind : {"textRun"}, content : TextRuns]
      \cup [kind : {"inlineObjectElement"}, inlineObjectId : ObjIds]
      \cup [kind : {"other"}]

Bodies == UNION {[1..n -> Elements] : n \in 0..MaxBody}

\* The inlineObjects table in iteration order: distinct ids, each with a
\* contentUri or without one (a KeyError on the path to contentUri).
InlineObjectTables ==
    {t \in UNION {[1..n -> [id : ObjIds, uri : {"u", NoUri}]] : n \in 0..Cardinality(ObjIds)} :
        \A i, j \in DOMAIN t : i /= j => t[i].id /= t[j].id}

\* Every inline object the body refers to has an entry in the table.
Docs ==
    {d \in [inlineObjects : InlineObjectTables, body : Bodies] :
        \A i \in DOMAIN d.body :
            d.body[i].kind = "inlineObjectElement"
                => \E j \in DOMAIN d.inlineObjects :
                       d.inlineObjects[j].id = d.body[i].inlineObjectId}

\* requests.get for one image: 200 with an image content type, a response that
\* is not a 200 image, or an exception.
ImageOutcomes == {"image", "notimage", "raise"}

\* role.mention
mention(role) == <<"<", "@", "&">> \o role.id \o <<">">>

\* f"[image:{obj_id}]"
Placeholder(obj_id) == <<"[image:", obj_id, "]">>

\* The two replacements made for one role (lines 123-126).
SubstituteRole(text, role) ==
    LET t1 == IF Contains(text, <<"@">> \o role.name)
              THEN Replace(text, <<"@">> \o role.name, mention(role))
              ELSE text
    IN  IF Contains(t1, <<"@">> \o role.id)
        THEN Replace(t1, <<"@">> \o role.id, mention(role))
        ELSE t1

\* for role in interaction.guild.roles (lines 122-126).
RECURSIVE SubstituteRoles(_, _)
SubstituteRoles(text, roles) ==
    IF roles = <<>> THEN text
    ELSE SubstituteRoles(SubstituteRole(text, Head(roles)), Tail(roles))

\* What one paragraph element adds to content (lines 119-129).
RenderElement(elem, g) ==
    IF elem.kind = "textRun"
    THEN IF g /= NoGuild THEN SubstituteRoles(elem.content, g) ELSE elem.content
    ELSE IF elem.kind = "inlineObjectElement"
         THEN Placeholder(elem.inlineObjectId)
         ELSE <<>>

RECURSIVE RenderBody(_, _)
RenderBody(body, g) ==
    IF body = <<>> THEN <<>>
    ELSE RenderElement(Head(body), g) \o RenderBody(Tail(body), g)

\* object_images: the table entries that have a contentUri (lines 109-115).
object_images(d) == SelectSeq(d.inlineObjects, LAMBDA o : o.uri /= NoUri)

\* image_files (lines 130-138).
RECURSIVE DownloadImages(_, _)
DownloadImages(objs, outcome) ==
    IF objs = <<>> THEN <<>>
    ELSE (IF outcome[Head(objs).id] = "image"
          THEN << [filename |-> <<"image_", Head(objs).id, ".", "png">>] >>
          ELSE <<>>)
         \o DownloadImages(Tail(objs), outcome)

\* for obj_id in object_images: content.replace(placeholder, "") (lines 139-140).
RECURSIVE StripPlaceholders(_, _)
StripPlaceholders(content, objs) ==
    IF objs = <<>> THEN content
    ELSE StripPlaceholders(Replace(content, Placeholder(Head(objs).id), <<>>), Tail(objs))

\* The value returned for document d, guild g and the given image fetch outcomes.
fetch_doc_content_and_images(d, g, outcome) ==
    [status |-> "ok",
     text   |-> Strip(StripPlaceholders(RenderBody(d.body, g), object_images(d))),
     images |-> DownloadImages(object_images(d), outcome)]

\* documents().get(...).execute() raised: the call propagates the exception.
RenderRaised == [status |-> "raised"]
NotRendered == [status |-> "none"]

\* One outcome for every image the render downloads.
ImageOutcomeMaps(d) ==
    [{object_images(d)[i].id : i \in DOMAIN object_images(d)} -> ImageOutcomes]

NoOutcome == <<>>

\* One call of fetch_doc_content_and_images(interaction, channel) on the stored
\* document; the document store answers or raises, each image fetch has its outcome.
RenderDoc ==
    /\ \/ \E outcome \in ImageOutcomeMaps(doc) :
            /\ img_outcome' = outcome
            /\ rendered' = fetch_doc_content_and_images(doc, guild, outcome)
       \/ /\ img_outcome' = NoOutcome
          /\ rendered' = RenderRaised
    /\ UNCHANGED <<doc, guild>>
    /\ UNCHANGED <<rateVars, revertVars>>

-----------------------------------------------------------------------------
(* Rate limiter and the two announce commands.                             *)

RATE_LIMIT == 10
RATE_LIMIT_WINDOW == 60

MaxTime == 60
\* The clock moves by these amounts between two events.
TimeSteps == {30, 60}

ALLOWED_ROLE_IDS == {"1374979741026746388", "1373028699766521936"}

None == "None"
\* guild.get_member(...) returned None.
NoMember == [absent |-> TRUE]

\* The members that issue commands, keyed by str(user.id).
Member ==
    [a1 |-> [administrator |-> TRUE,  roles |-> {"everyone"}],
     a2 |-> [administrator |-> FALSE, roles |-> {"everyone", "1373028699766521936"}],
     a3 |-> [administrator |-> FALSE, roles |-> {"everyone", "555"}]]
Actors == DOMAIN Member

any_allowed_role(member) == \E role \in member.roles : role \in ALLOWED_ROLE_IDS

\* is_allowed with the role test `any(role.id for role in member.roles)`.
is_allowed_any_role(kind, member) ==
    IF kind = "Interaction"
    THEN member /= NoMember /\ (member.administrator \/ member.roles /= {})
    ELSE member.administrator \/ member.roles /= {}

\* is_allowed(interaction_or_ctx): member is guild.get_member(user.id), which
\* may be None, for an Interaction and ctx.author for a Context.
is_allowed(kind, member) ==
    IF kind = "Interaction"
    THEN IF member /= NoMember /\ member.administrator THEN TRUE
         ELSE IF member /= NoMember THEN any_allowed_role(member) ELSE FALSE
    ELSE IF member.administrator THEN TRUE ELSE any_allowed_role(member)

\* The pruning that also records the time of the check.
prune_and_record(usage, t_now) ==
    Append(SelectSeq(usage, LAMBDA t : t_now - t < RATE_LIMIT_WINDOW), t_now)

\* The pruning with `now - t <= RATE_LIMIT_WINDOW`.
prune_inclusive(usage, t_now) == SelectSeq(usage, LAMBDA t : t_now - t <= RATE_LIMIT_WINDOW)

\* [t for t in usage if now - t < RATE_LIMIT_WINDOW]
prune(usage, t_now) == SelectSeq(usage, LAMBDA t : t_now - t < RATE_LIMIT_WINDOW)

\* The comparison `len(usage) <= RATE_LIMIT`.
under_limit_inclusive(usage) == Len(usage) <= RATE_LIMIT

\* The value check_rate_limit returns once usage has been pruned.
under_limit(usage) == Len(usage) < RATE_LIMIT

SeqMin(s) == CHOOSE m \in {s[i] : i \in DOMAIN s} : \A i \in DOMAIN s : m <= s[i]
\* The oldest timestamp of s; t when s holds none.
Oldest(s, t) == IF s = <<>> THEN t ELSE SeqMin(s)

NoReply == "NoReply"
PermissionDenied == "You lack permission."
RateLimitHit == "Rate limit hit."
EmptyDocument == "The document is empty."
AnnouncementSent == "Announcement sent."
ErrorSending == "Error sending announcement."

IdleInv == [pc |-> "idle"]
NoCheck == [actor |-> None]

\* The timestamps of s that lie in the window that ends at t.
Trailing(s, t) == SelectSeq(s, LAMBDA x : t - x < RATE_LIMIT_WINDOW)

\* Time passes between two events; the clock never runs backwards.
Advance ==
    \E d \in TimeSteps :
        /\ now + d <= MaxTime
        /\ now' = now + d
        /\ admitted' = [a \in Actors |-> Trailing(admitted[a], now + d)]
        /\ last_check' = NoCheck
        /\ UNCHANGED <<usage_tracker, inv, reply, channel_sent, doc_fetches, denied>>
        /\ UNCHANGED <<renderVars, revertVars>>

\* The permission check failed: the response, and return (lines 155-157, 179-181).
Refuse(a) ==
    /\ reply' = [to |-> a, text |-> PermissionDenied]
    /\ last_check' = NoCheck
    /\ UNCHANGED <<now, usage_tracker, admitted, inv, channel_sent, doc_fetches, denied>>

\* check_rate_limit(str(user.id)) returned False (lines 158-160, 182-184).
Limit(a) ==
    /\ usage_tracker' = [usage_tracker EXCEPT ![a] = prune(usage_tracker[a], now)]
    /\ last_check' = [actor |-> a, time |-> now, result |-> FALSE,
                      oldest |-> Oldest(usage_tracker[a], now), after_denial |-> a \in denied]
    /\ denied' = denied \cup {a}
    /\ reply' = [to |-> a, text |-> RateLimitHit]
    /\ UNCHANGED <<now, admitted, inv, channel_sent, doc_fetches>>

\* check_rate_limit returned True and the usage is recorded (lines 161, 185).
\* The two datetime.now() calls of one request read the same second.
Record(a) ==
    /\ usage_tracker' = [usage_tracker EXCEPT ![a] = Append(prune(usage_tracker[a], now), now)]
    /\ last_check' = [actor |-> a, time |-> now, result |-> TRUE,
                      oldest |-> Oldest(usage_tracker[a], now), after_denial |-> a \in denied]
    /\ denied' = denied \ {a}
    /\ admitted' = [admitted EXCEPT ![a] = Append(Trailing(admitted[a], now), now)]
    /\ channel_sent' = <<>>
    /\ UNCHANGED now

\* The test of the render with the empty-document branch left out.
is_empty_never(r) == FALSE

\* if not text and not images (lines 164, 187)
is_empty(r) == r.text = <<>> /\ r.images = <<>>

\* fetch_doc_content_and_images and what follows it up to the next await
\* (lines 163-168, 186-191). g is the guild the render is given.
Fetched(a, kind, g) ==
    /\ doc_fetches' = TRUE
    /\ \/ /\ reply' = [to |-> a, text |-> ErrorSending]
          /\ inv' = IdleInv
       \/ \E outcome \in ImageOutcomeMaps(doc) :
            LET r == fetch_doc_content_and_images(doc, g, outcome)
            IN  IF is_empty(r)
                THEN /\ reply' = [to |-> a, text |-> EmptyDocument]
                     /\ inv' = IdleInv
                ELSE /\ UNCHANGED reply
                     /\ inv' = [pc |-> "send_text", actor |-> a, kind |-> kind,
                                text |-> r.text, images |-> r.images]

\* /announce up to its first await (lines 154-162).
announce ==
    \E a \in Actors, cached \in BOOLEAN :
        /\ LET member == IF cached THEN Member[a] ELSE NoMember
           IN  IF ~is_allowed("Interaction", member) THEN Refuse(a)
               ELSE IF ~under_limit(prune(usage_tracker[a], now)) THEN Limit(a)
               ELSE /\ inv.pc = "idle"
                    /\ Record(a)
                    /\ inv' = [pc |-> "deferred", actor |-> a, kind |-> "Interaction"]
                    /\ doc_fetches' = FALSE
                    /\ UNCHANGED reply
        /\ UNCHANGED <<renderVars, revertVars>>

\* /announce from the return of defer() to the next await (lines 163-168).
announce_deferred ==
    /\ inv.pc = "deferred"
    /\ Fetched(inv.actor, "Interaction", guild)
    /\ last_check' = NoCheck
    /\ UNCHANGED <<now, usage_tracker, admitted, channel_sent, denied>>
    /\ UNCHANGED <<renderVars, revertVars>>

\* !announce up to its first await (lines 178-191).
announce_cmd ==
    \E a \in Actors :
        /\ IF ~is_allowed("Context", Member[a]) THEN Refuse(a)
           ELSE IF ~under_limit(prune(usage_tracker[a], now)) THEN Limit(a)
           ELSE /\ inv.pc = "idle"
                /\ Record(a)
                /\ Fetched(a, "Context", NoGuild)
        /\ UNCHANGED <<renderVars, revertVars>>

\* The reply that ends a successful invocation (line 171; !announce gives none).
Completed ==
    /\ reply' = IF inv.kind = "Interaction"
                THEN [to |-> inv.actor, text |-> AnnouncementSent]
                ELSE reply
    /\ inv' = IdleInv

\* The except branch without the notice to the actor.
Failed_silent ==
    /\ UNCHANGED reply
    /\ inv' = IdleInv

\* The except branch (lines 172-174, 194-196).
Failed ==
    /\ reply' = [to |-> inv.actor, text |-> ErrorSending]
    /\ inv' = IdleInv

\* channel.send(content=text or None) returns or raises (lines 168-169, 191-192).
\* The platform rejects a message that has neither content nor files.
send_text ==
    \E ok \in BOOLEAN :
        /\ inv.pc = "send_text"
        /\ inv.text = <<>> => ~ok
        /\ channel_sent' =
               Append(channel_sent, [content |-> IF inv.text = <<>> THEN <<None>> ELSE inv.text,
                                     files |-> <<>>, ok |-> ok])
        /\ IF ~ok THEN Failed
           ELSE IF inv.images /= <<>>
                THEN /\ inv' = [inv EXCEPT !.pc = "send_images"]
                     /\ UNCHANGED reply
                ELSE Completed
        /\ last_check' = NoCheck
        /\ UNCHANGED <<now, usage_tracker, admitted, doc_fetches, denied>>
        /\ UNCHANGED <<renderVars, revertVars>>

\* channel.send(files=images) returns or raises (lines 170-171, 193).
send_images ==
    \E ok \in BOOLEAN :
        /\ inv.pc = "send_images"
        /\ channel_sent' =
               Append(channel_sent, [content |-> <<None>>, files |-> inv.images, ok |-> ok])
        /\ IF ok THEN Completed ELSE Failed
        /\ last_check' = NoCheck
        /\ UNCHANGED <<now, usage_tracker, admitted, doc_fetches, denied>>
        /\ UNCHANGED <<renderVars, revertVars>>

-----------------------------------------------------------------------------
(* Revert reconciler: check_reverts, with the DM complaint logger that     *)
(* appends the rows and the operator who writes the revert cell.           *)

MaxRows == 3
MaxWriteFails == 1
Rows == 1..MaxRows

Digits == {"0", "1", "2", "3", "4", "5", "6", "7", "8", "9"}

\* int(user_id) returns (it raises ValueError otherwise).
int_parses(user_id) ==
    user_id /= <<>> /\ \A k \in DOMAIN user_id : user_id[k] \in Digits

UserId == <<"1", "0", "1">>
BadUserId == <<"a", "b", "c">>

\* The lines a revert message of the model is made of.
LineText == <<"h", "i">>
LineLink == <<"h", "t", "t", "p", ":", "/", "/", "x", "/", "y", ".", "P", "N", "G">>
LinePadded == <<" ", "b", "y", "e", " ">>
LineBlank == <<" ">>

\* A cell value is the list of its lines, value.split("\n"); the empty cell is [""].
EmptyMsg == << <<>> >>
\* A message of text and an image link, and one whose only content is the link.
Messages ==
    { <<LineText, LineLink, LinePadded>>, <<LineBlank, LineLink>> }

Done == "done"

NoDm == [row |-> 0]
\* start() raised because the task loop is running.
StartRaised == [row |-> 0, error |-> "Task is already launched and is not completed."]
\* user.send raised because the message has neither content nor files.
EmptyMessage == [row |-> 0, error |-> "Cannot send an empty message"]

\* str.lower() on the characters of the model.
LowerChar(c) ==
    CASE c = "P" -> "p"
      [] c = "N" -> "n"
      [] c = "G" -> "g"
      [] OTHER -> c
Lower(s) == [k \in DOMAIN s |-> LowerChar(s[k])]

ImageExts ==
    { <<".", "j", "p", "g">>, <<".", "j", "p", "e", "g">>,
      <<".", "p", "n", "g">>, <<".", "g", "i", "f">> }

\* The test of line 89.
is_image_link(part) ==
    /\ StartsWith(Strip(part), <<"h", "t", "t", "p">>)
    /\ \E ext \in ImageExts : Contains(Lower(part), ext)

\* s.split("/")[-1]
RECURSIVE LastComponent(_)
LastComponent(s) ==
    IF \E k \in DOMAIN s : s[k] = "/"
    THEN LastComponent(Tail(s))
    ELSE s

\* "\n".join(text_parts)
RECURSIVE Join(_)
Join(parts) ==
    IF parts = <<>> THEN <<>>
    ELSE IF Len(parts) = 1 THEN parts[1]
    ELSE parts[1] \o <<"\n">> \o Join(Tail(parts))

\* The condition of line 83 with the row test `if revert_sent != "done"`.
qualifies_any_message(row) == row.revert_sent /= Done

\* The condition of line 83 with the row test `if revert_message`.
qualifies_any_status(row) == row.revert /= EmptyMsg

\* if revert_message and revert_sent != "done" (line 83)
qualifies(row) == row.revert /= EmptyMsg /\ row.revert_sent /= Done

\* The row at which the loop of line 79 next suspends, from row i on: the first
\* qualifying row whose user id parses (int(user_id) raises before any await and
\* the except branch goes on to the next row); Len(records) + 1 if there is none.
RECURSIVE next_row(_, _)
next_row(records, i) ==
    IF i > Len(records) THEN i
    ELSE IF qualifies(records[i]) /\ int_parses(records[i].user_id) THEN i
    ELSE next_row(records, i + 1)

\* The rows from i to j whose try block is entered.
entered(records, i, j) ==
    {r \in i..j : r <= Len(records) /\ qualifies(records[r])}

IdleTick == [pc |-> "idle"]

\* The tick once it has left row i - 1: suspended in fetch_user of the next
\* row, or finished.
resume(records, i, attempted) ==
    LET j == next_row(records, i)
    IN  IF j > Len(records) THEN IdleTick
        ELSE [pc |-> "fetch_user", records |-> records, i |-> j,
              attempted |-> attempted \cup entered(records, i, j)]

\* The loop of line 88 from line k of the message on, up to the next await: the
\* GET of an image link, or user.send.
RECURSIVE parts_from(_, _, _, _)
parts_from(t, k, text_parts, files) ==
    LET msg == t.records[t.i].revert
    IN  IF k > Len(msg)
        THEN [pc |-> "send", records |-> t.records, i |-> t.i, attempted |-> t.attempted,
              text_parts |-> text_parts, files |-> files]
        ELSE IF is_image_link(msg[k])
             THEN [pc |-> "get", records |-> t.records, i |-> t.i, attempted |-> t.attempted,
                   k |-> k, text_parts |-> text_parts, files |-> files]
             ELSE parts_from(t, k + 1, Append(text_parts, Strip(msg[k])), files)

\* The except branch with the tick ending at the failed row.
except_ends_tick(t) == IdleTick

\* The except branch of a row (lines 100-101): the error is printed and the
\* for loop goes on with the next row of the snapshot.
except_row(t) == resume(t.records, t.i + 1, t.attempted)

\* start() launching a task loop beside the one that runs.
start_again(l) == IF l = "running" THEN "doubled" ELSE "running"

\* check_reverts.start() (line 292): the task loop is launched, or RuntimeError
\* is raised when it is launched already and has not ended.
start(l) == IF l = "running" THEN l ELSE "running"

\* on_ready, at start-up and after each new gateway session.
on_ready ==
    /\ loop' = start(loop)
    /\ last_dm' = IF loop' = loop THEN StartRaised ELSE NoDm
    /\ UNCHANGED <<sheet, tick, sends, write_fails>>
    /\ UNCHANGED <<renderVars, rateVars>>

\* A tick begins: get_all_records() returns the rows, or raises; the task loop
\* retries after a connection error and ends on any other exception.
check_reverts ==
    /\ loop = "running"
    /\ tick.pc = "idle"
    /\ \/ /\ tick' = resume(sheet, 1, {})
          /\ UNCHANGED loop
       \/ /\ loop' \in {"running", "stopped"}
          /\ UNCHANGED tick
    /\ last_dm' = NoDm
    /\ UNCHANGED <<sheet, sends, write_fails>>
    /\ UNCHANGED <<renderVars, rateVars>>

\* bot.fetch_user returns or raises (line 85).
fetch_user ==
    /\ tick.pc = "fetch_user"
    /\ \E found \in BOOLEAN :
         tick' = IF found THEN parts_from(tick, 1, <<>>, <<>>)
                 ELSE except_row(tick)
    /\ last_dm' = NoDm
    /\ UNCHANGED <<sheet, loop, sends, write_fails>>
    /\ UNCHANGED <<renderVars, rateVars>>

\* The GET of an image link answers 200 and is read, answers another status,
\* or raises (lines 90-94).
get_image ==
    /\ tick.pc = "get"
    /\ \E resp \in {"200", "other", "raise"} :
         LET part == tick.records[tick.i].revert[tick.k]
             file == [filename |-> LastComponent(Strip(part))]
         IN  tick' =
               IF resp = "raise" THEN except_row(tick)
               ELSE parts_from(tick, tick.k + 1, tick.text_parts,
                               IF resp = "200" THEN Append(tick.files, file) ELSE tick.files)
    /\ last_dm' = NoDm
    /\ UNCHANGED <<sheet, loop, sends, write_fails>>
    /\ UNCHANGED <<renderVars, rateVars>>

\* The status write with the row offset i + 1, the header row not counted.
update_cell_no_header(rows, i) ==
    IF i - 1 \in DOMAIN rows THEN [rows EXCEPT ![i - 1].revert_sent = Done] ELSE rows

\* The status write with the row offset i + 3.
update_cell_next_row(rows, i) ==
    IF i + 1 \in DOMAIN rows THEN [rows EXCEPT ![i + 1].revert_sent = Done] ELSE rows

\* sheet_complaints.update_cell(i + 2, 9, "done") on the stored rows (line 99).
update_cell(rows, i) ==
    IF i \in DOMAIN rows THEN [rows EXCEPT ![i].revert_sent = Done] ELSE rows

RECURSIVE SumTo(_, _)
SumTo(f, n) == IF n = 0 THEN 0 ELSE f[n] + SumTo(f, n - 1)

\* The status writes that have failed so far.
FailedWrites == SumTo(write_fails, MaxRows)

\* The outcomes <<sent, written>> with the status write placed before user.send.
write_then_send == {<<TRUE, TRUE>>, <<TRUE, FALSE>>, <<FALSE, TRUE>>, <<FALSE, FALSE>>}

\* The outcomes <<sent, written>> of lines 98-99: update_cell runs only once
\* user.send has returned.
send_then_write == {<<TRUE, TRUE>>, <<TRUE, FALSE>>, <<FALSE, FALSE>>}

\* user.send returns or raises, then the status write returns or raises
\* (lines 97-101). The platform rejects a message with neither content nor files;
\* at most MaxWriteFails status writes fail.
send ==
    /\ tick.pc = "send"
    /\ LET i == tick.i
           message_text == Join(tick.text_parts)
       IN  \E sent \in BOOLEAN, written \in BOOLEAN :
             /\ <<sent, written>> \in send_then_write
             /\ (message_text = <<>> /\ tick.files = <<>>) => ~sent
             /\ (sent /\ ~written) => FailedWrites < MaxWriteFails
             /\ IF sent
                THEN /\ sends' = [sends EXCEPT ![i] = @ + 1]
                     /\ last_dm' = [row |-> i, to |-> tick.records[i].user_id,
                                    content |-> message_text, files |-> tick.files]
                ELSE /\ last_dm' = IF message_text = <<>> /\ tick.files = <<>>
                                    THEN EmptyMessage
                                    ELSE NoDm
                     /\ UNCHANGED sends
             /\ sheet' = IF written THEN update_cell(sheet, i) ELSE sheet
             /\ write_fails' = IF sent /\ ~written
                               THEN [write_fails EXCEPT ![i] = @ + 1]
                               ELSE write_fails
             /\ tick' = IF sent /\ written
                        THEN resume(tick.records, i + 1, tick.attempted)
                        ELSE except_row(tick)
    /\ UNCHANGED loop
    /\ UNCHANGED <<renderVars, rateVars>>

\* on_message for a direct message: the complaint row is appended with empty
\* revert and status cells (lines 203-211).
on_message ==
    /\ Len(sheet) < MaxRows
    /\ sheet' = Append(sheet, [user_id |-> UserId, revert |-> EmptyMsg, revert_sent |-> ""])
    /\ last_dm' = NoDm
    /\ UNCHANGED <<loop, tick, sends, write_fails>>
    /\ UNCHANGED <<renderVars, rateVars>>

\* The operator writes the reply into the empty revert cell of a row.
operator_reverts ==
    /\ \E i \in DOMAIN sheet, m \in Messages :
         /\ sheet[i].revert = EmptyMsg
         /\ sheet' = [sheet EXCEPT ![i].revert = m]
    /\ last_dm' = NoDm
    /\ UNCHANGED <<loop, tick, sends, write_fails>>
    /\ UNCHANGED <<renderVars, rateVars>>

\* The sheet before the bot starts: empty, or one complaint row whose user id
\* cell does not hold a number.
InitSheets ==
    { <<>>, << [user_id |-> BadUserId, revert |-> EmptyMsg, revert_sent |-> ""] >> }

-----------------------------------------------------------------------------
(* Initial states and specifications.                                      *)


EmptyDoc == [inlineObjects |-> <<>>, body |-> <<>>]

RenderStart ==
    /\ img_outcome = NoOutcome
    /\ rendered = NotRendered

RateStart ==
    /\ now = 0
    /\ usage_tracker = [a \in Actors |-> <<>>]
    /\ admitted = [a \in Actors |-> <<>>]
    /\ inv = IdleInv
    /\ reply = [to |-> None, text |-> NoReply]
    /\ channel_sent = <<>>
    /\ doc_fetches = FALSE
    /\ last_check = NoCheck
    /\ denied = {}

RevertStart ==
    /\ loop = "unstarted"
    /\ tick = [pc |-> "idle"]
    /\ sends = [i \in Rows |-> 0]
    /\ write_fails = [i \in Rows |-> 0]
    /\ last_dm = NoDm

\* The renderer on every document and guild of the model.
InitRender ==
    /\ doc \in Docs
    /\ guild \in Guilds
    /\ sheet = <<>>
    /\ RenderStart /\ RateStart /\ RevertStart

NextRender == RenderDoc

SpecRender == InitRender /\ [][NextRender]_vars

\* The documents the announce commands are run on: empty, text only, images
\* only, text and images.
AnnounceDocs ==
    { EmptyDoc,
      [inlineObjects |-> <<>>,
       body |-> << [kind |-> "textRun", content |-> <<"H", "i", " ", "@", "A", "s", "\n">>] >>],
      [inlineObjects |-> << [id |-> "k1", uri |-> "u"] >>,
       body |-> << [kind |-> "inlineObjectElement", inlineObjectId |-> "k1"] >>],
      [inlineObjects |-> << [id |-> "k1", uri |-> "u"] >>,
       body |-> << [kind |-> "textRun", content |-> <<"@", "A">>],
                   [kind |-> "inlineObjectElement", inlineObjectId |-> "k1"] >>] }

\* The announce commands on each of these documents, at one instant: the
\* permission check, the admission, the render and the channel sends.
InitAnnounce ==
    /\ doc \in AnnounceDocs
    /\ guild = <<RoleAdmin, RoleAdmins>>
    /\ sheet = <<>>
    /\ RenderStart /\ RateStart /\ RevertStart

NextAnnounce ==
    \/ announce
    \/ announce_deferred
    \/ announce_cmd
    \/ send_text
    \/ send_images

SpecAnnounce == InitAnnounce /\ [][NextAnnounce]_vars

\* The rate limiter over time. The stored document is empty, so that every
\* admitted invocation ends at the render and no channel send is reached.
InitRate ==
    /\ doc = EmptyDoc
    /\ guild = <<RoleAdmin, RoleAdmins>>
    /\ sheet = <<>>
    /\ RenderStart /\ RateStart /\ RevertStart

NextRate ==
    \/ Advance
    \/ announce
    \/ announce_deferred
    \/ announce_cmd

SpecRate == InitRate /\ [][NextRate]_vars

\* The reconciler with the complaint logger and the operator.
Init ==
    /\ doc = EmptyDoc
    /\ guild = NoGuild
    /\ sheet \in InitSheets
    /\ RenderStart /\ RateStart /\ RevertStart

Next ==
    \/ on_ready
    \/ check_reverts
    \/ fetch_user
    \/ get_image
    \/ send
    \/ on_message
    \/ operator_reverts

Spec == Init /\ [][Next]_vars

\* The reconciler as the event loop schedules it: the bot connects and on_ready
\* runs once at start-up (a later on_ready needs a new gateway session, which
\* nothing schedules); while the task loop runs, its timer fires every five
\* minutes; and every call a tick awaits returns or raises.
SpecLive ==
    /\ Init /\ [][Next]_vars
    /\ WF_vars(loop = "unstarted" /\ on_ready)
    /\ WF_vars(check_reverts)
    /\ WF_vars(fetch_user)
    /\ WF_vars(get_image)
    /\ WF_vars(send)

-----------------------------------------------------------------------------
(* Claims about the rate limiter and the permission check.                 *)

\* C3: for every actor at most RATE_LIMIT requests pass the rate-limit check
\* within any trailing RATE_LIMIT_WINDOW seconds (so a check made while 10
\* admitted timestamps lie in the window returns False), and a step that is
\* neither a check by the actor nor the passage of time leaves the actor's
\* admitted timestamps and usage window as they were.
C3_AtMostTenPerWindow ==
    /\ [](\A a \in Actors : Len(admitted[a]) <= RATE_LIMIT)
    /\ [][\A a \in Actors :
            (last_check'.actor /= a /\ now' = now)
                => (admitted'[a] = admitted[a] /\ usage_tracker'[a] = usage_tracker[a])]_vars

\* A request of a1 is refused at the limit while a2 has admitted requests too.
C3_Witness ==
    /\ last_check.actor = "a1"
    /\ last_check.result = FALSE
    /\ Len(admitted["a1"]) = RATE_LIMIT
    /\ admitted["a2"] /= <<>>
    /\ \E i, j \in DOMAIN admitted["a1"] : admitted["a1"][i] /= admitted["a1"][j]

\* C4: a check_rate_limit call made for an actor whose previous call returned
\* False, at least RATE_LIMIT_WINDOW seconds after the oldest timestamp recorded
\* for that actor, returns True.
C4_AdmittedAfterExpiry ==
    (/\ last_check.actor /= None
     /\ last_check.after_denial
     /\ last_check.time - last_check.oldest >= RATE_LIMIT_WINDOW)
        => last_check.result = TRUE

\* An actor refused at the limit is admitted again exactly one window later.
C4_Witness ==
    /\ last_check.actor /= None
    /\ last_check.after_denial
    /\ last_check.time - last_check.oldest = RATE_LIMIT_WINDOW
    /\ last_check.result = TRUE

Unprivileged(a) ==
    /\ ~Member[a].administrator
    /\ Member[a].roles \cap ALLOWED_ROLE_IDS = {}

\* C5: an actor with neither the administrator flag nor a role of the allow-set
\* only ever gets the permission-denied response, never has an invocation
\* admitted and never has a usage timestamp recorded; and the step that gives
\* a permission-denied response sends nothing to the channel, fetches no
\* document and leaves every usage window unchanged.
C5_PermissionDenied ==
    /\ [](\A a \in Actors : Unprivileged(a) =>
            /\ reply.to = a => reply.text = PermissionDenied
            /\ inv.pc /= "idle" => inv.actor /= a
            /\ usage_tracker[a] = <<>>)
    /\ [][(reply'.text = PermissionDenied /\ reply' /= reply)
            => UNCHANGED <<usage_tracker, channel_sent, doc_fetches, inv>>]_vars

\* The unprivileged actor was refused after another actor's announcement went out.
C5_Witness ==
    /\ reply = [to |-> "a3", text |-> PermissionDenied]
    /\ channel_sent /= <<>>
    /\ doc_fetches

\* C19: a check for an actor that returns False leaves in the actor's usage
\* window exactly the timestamps less than RATE_LIMIT_WINDOW seconds old, in
\* their order, and adds none; a check that returns True leaves these and the
\* time of the check, added once, in the same step; no other step changes a
\* usage window; and at any time the timestamps of an actor's window that lie
\* in the trailing window are those of the actor's admitted requests.
C19_CheckConsumesNoQuota ==
    /\ [][\A a \in Actors :
            /\ (last_check'.actor = a /\ ~last_check'.result)
                  => usage_tracker'[a] = Trailing(usage_tracker[a], now)
            /\ (last_check'.actor = a /\ last_check'.result)
                  => usage_tracker'[a] = Append(Trailing(usage_tracker[a], now), now)
            /\ last_check'.actor /= a
                  => usage_tracker'[a] = usage_tracker[a]
            /\ last_check'.actor = a => now' = now]_vars
    /\ [](\A a \in Actors : Trailing(usage_tracker[a], now) = admitted[a])

\* A request of a1 has just been refused at the limit for the second time in a
\* row, and the window still holds the RATE_LIMIT timestamps of the admitted
\* requests, some of them recorded at different times.
C19_Witness ==
    /\ last_check.actor = "a1"
    /\ ~last_check.result
    /\ last_check.after_denial
    /\ Len(usage_tracker["a1"]) = RATE_LIMIT
    /\ usage_tracker["a1"][1] /= usage_tracker["a1"][RATE_LIMIT]

-----------------------------------------------------------------------------
(* Claims about the document renderer.                                     *)

TextRunsOf(d) == {i \in DOMAIN d.body : d.body[i].kind = "textRun"}

\* C6: the text a render returns contains no placeholder [image:<objectId>],
\* whatever the inline-object table holds for the referenced object and
\* whatever the outcome of the image fetch.
C6_NoPlaceholderLeft ==
    rendered.status = "ok" =>
        \A id \in ObjIds : ~Contains(rendered.text, Placeholder(id))

\* No image of the document can be resolved: each table entry lacks a
\* contentUri or its fetch did not return an image.
NoResolvableImage ==
    \A i \in DOMAIN doc.inlineObjects :
        \/ doc.inlineObjects[i].uri = NoUri
        \/ img_outcome[doc.inlineObjects[i].id] /= "image"

\* C7: rendering a document with no text run and no resolvable image returns
\* the empty text and the empty image list.
C7_EmptyRender ==
    (rendered.status = "ok" /\ TextRunsOf(doc) = {} /\ NoResolvableImage)
        => (rendered.text = <<>> /\ rendered.images = <<>>)

\* The run names role k of guild g: it contains the literal @name, and not as
\* the beginning of the literal of a guild role with a longer name.
Names(content, g, k) ==
    /\ Contains(content, <<"@">> \o g[k].name)
    /\ \A j \in DOMAIN g :
         (g[j].name /= g[k].name /\ StartsWith(g[j].name, g[k].name))
            => ~Contains(content, <<"@">> \o g[j].name)

\* C10: for a document that is one text run, rendered with a guild: for every
\* role R of the guild that the run names by the literal @R, the returned text
\* contains R's mention token and no literal @R, in every enumeration order of
\* the guild's roles.
C10_RoleMentioned ==
    (rendered.status = "ok" /\ guild /= NoGuild
       /\ Len(doc.body) = 1 /\ doc.body[1].kind = "textRun")
        => \A k \in DOMAIN guild :
             Names(doc.body[1].content, guild, k)
                => /\ Contains(rendered.text, mention(guild[k]))
                   /\ ~Contains(rendered.text, <<"@">> \o guild[k].name)

-----------------------------------------------------------------------------
(* Claims about the revert reconciler.                                     *)

\* Row r of the snapshot of the tick in progress.
InTick(r) == tick.pc /= "idle" /\ r \in DOMAIN tick.records

\* No direct message for row r in this step, and no write to its status cell.
Untouched(r) ==
    /\ sends'[r] = sends[r]
    /\ sheet'[r].revert_sent = sheet[r].revert_sent
    /\ last_dm' /= last_dm => last_dm'.row /= r

\* C1: a row whose status read at the start of the tick is "done" is never
\* among the rows the tick attempts, and no step of the tick sends a direct
\* message for it or writes to it, whatever its revert message.
C1_DoneRowSkipped ==
    /\ [](tick.pc /= "idle" =>
            \A r \in tick.attempted : tick.records[r].revert_sent /= Done)
    /\ [][\A r \in Rows :
            (InTick(r) /\ tick.records[r].revert_sent = Done)
                => (Untouched(r) /\ sheet'[r] = sheet[r])]_vars

\* A tick is at the send of a row, having passed a row that an earlier tick
\* delivered and marked done; that row was sent once.
C1_Witness ==
    /\ tick.pc = "send"
    /\ \E r \in 1..(tick.i - 1) :
         /\ tick.records[r].revert_sent = Done
         /\ sends[r] = 1

\* C2 as stated: the revert message of a row is sent at most once.
C2_SentAtMostOnce == \A r \in Rows : sends[r] <= 1

\* C2 amended: a row's message is sent at most once more than the number of
\* failed status writes for the row; a row marked done was sent; and once a
\* row is done it stays done and its message is not sent again.
C2_SentOncePerFailedWrite ==
    /\ [](\A r \in Rows :
            /\ sends[r] <= write_fails[r] + 1
            /\ (r \in DOMAIN sheet /\ sheet[r].revert_sent = Done) => sends[r] >= 1)
    /\ [][\A r \in DOMAIN sheet :
            sheet[r].revert_sent = Done
                => (sheet'[r].revert_sent = Done /\ sends'[r] = sends[r])]_vars

\* A row was sent, its status write failed, and it was sent again and marked done.
C2_Witness ==
    \E r \in DOMAIN sheet :
        /\ sheet[r].revert_sent = Done
        /\ sends[r] = 2
        /\ write_fails[r] = 1

\* C8: the rows a tick has attempted so far are exactly the rows of its
\* snapshot, up to its position, with a non-empty revert message and a status
\* other than "done"; a row the tick passes over without suspending is not
\* such a row, or its user id does not parse; and no step of the tick sends for
\* or writes the status of a row with an empty message or status "done", or of
\* any row other than the one the tick is at.
C8_ExactlyQualifyingRows ==
    /\ [](tick.pc /= "idle" =>
            tick.attempted =
                {r \in 1..tick.i : /\ tick.records[r].revert /= EmptyMsg
                                   /\ tick.records[r].revert_sent /= Done})
    /\ [][\A r \in Rows :
            /\ (InTick(r) /\ (\/ tick.records[r].revert = EmptyMsg
                              \/ tick.records[r].revert_sent = Done
                              \/ r /= tick.i))
                  => Untouched(r)
            /\ (InTick(r) /\ r > tick.i /\ (tick'.pc = "idle" \/ r < tick'.i))
                  => \/ tick.records[r].revert = EmptyMsg
                     \/ tick.records[r].revert_sent = Done
                     \/ ~int_parses(tick.records[r].user_id)]_vars

\* The tick delivers row 3 after row 1 and has passed over row 2, whose revert
\* message is empty.
C8_Witness ==
    /\ tick.pc = "send"
    /\ tick.i = 3
    /\ tick.attempted = {1, 3}
    /\ tick.records[2].revert = EmptyMsg
    /\ sends[1] >= 1

\* C9: whatever the outcome of the fetch of an image link, the tick goes on
\* with the same row, to its next image link or to the send of its message.
C9_FailedFetchDropped ==
    [][tick.pc = "get" => (tick'.pc \in {"get", "send"} /\ tick'.i = tick.i)]_vars

\* The rows after row i of the snapshot at which a tick suspends: those with a
\* revert message, a status other than "done" and a user id that parses.
LaterRows(records, i) ==
    {r \in (i + 1)..Len(records) :
        /\ records[r].revert /= EmptyMsg
        /\ records[r].revert_sent /= Done
        /\ int_parses(records[r].user_id)}

\* The step is a failure on the row the tick is at: the user is not found, an
\* image fetch raises, the send raises, or the status write raises.
RowFails ==
    /\ tick.pc /= "idle"
    /\ tick' /= tick
    /\ \/ tick.pc \in {"fetch_user", "get"} /\ (tick'.pc = "idle" \/ tick'.i /= tick.i)
       \/ tick.pc = "send" /\ (sends' = sends \/ write_fails' /= write_fails)

\* C11: when a step of a tick fails on a row, the loop keeps running, the tick
\* goes on in the same snapshot to the next later row that has a message, is
\* not done and has a user id that parses (it ends if there is none), the
\* failing row's status is not written by that step, and every row whose try
\* block the tick went through is counted as attempted, including rows that
\* failed at the parse of the user id.
C11_RowFailureIsolated ==
    /\ [][RowFails =>
            LET later == LaterRows(tick.records, tick.i)
            IN  /\ loop' = loop
                /\ sheet' = sheet
                /\ IF later = {} THEN tick'.pc = "idle"
                   ELSE /\ tick'.pc = "fetch_user"
                        /\ tick'.records = tick.records
                        /\ tick'.i \in later
                        /\ \A r \in later : tick'.i <= r
                        /\ \A r \in tick.i..tick'.i :
                             (/\ tick.records[r].revert /= EmptyMsg
                              /\ tick.records[r].revert_sent /= Done)
                                => r \in tick'.attempted]_vars
    /\ [](\A r \in Rows :
            (InTick(r) /\ r < tick.i /\ r \in tick.attempted /\ sends[r] = 0
               /\ r \in DOMAIN sheet)
                => sheet[r].revert_sent /= Done)

\* The tick is at the send of row 3 after the parse of the user id failed for
\* row 1 and row 2 failed later in its try block; neither was sent or marked done.
C11_Witness ==
    /\ tick.pc = "send"
    /\ tick.i = 3
    /\ tick.attempted = {1, 2, 3}
    /\ ~int_parses(tick.records[1].user_id)
    /\ int_parses(tick.records[2].user_id)
    /\ sends[1] = 0 /\ sends[2] = 0
    /\ sheet[1].revert_sent /= Done /\ sheet[2].revert_sent /= Done

\* The row-store read of a tick raises and the task loop ends.
ReadFails == loop = "running" /\ loop' = "stopped"

\* Row r is stored with a message, a status other than "done" and a user id
\* that parses.
Pending(r) ==
    /\ r \in DOMAIN sheet
    /\ sheet[r].revert /= EmptyMsg
    /\ sheet[r].revert_sent /= Done
    /\ int_parses(sheet[r].user_id)

\* Row r is stored with the status "done".
MarkedDone(r) == r \in DOMAIN sheet /\ sheet[r].revert_sent = Done

\* Every pending row is eventually done, provided that from some point on no
\* row-store read, user resolution, image fetch, send or status write fails.
EventuallyDone ==
    (<>[][~(RowFails \/ ReadFails)]_vars)
        => \A r \in Rows : Pending(r) ~> MarkedDone(r)

\* C12: under fair ticking, if from some point on the row-store read, the user
\* resolution, the send and the status write succeed, a pending row eventually
\* becomes done; and no failure of a tick, a failed row-store read included,
\* stops the loop, so that later ticks run.
C12_RetriedUntilDone ==
    /\ EventuallyDone
    /\ [][loop = "running" => loop' = "running"]_vars

\* The text of a revert cell as line 97 builds it: its lines that are not image
\* links, stripped and joined.
RECURSIVE TextOf(_)
TextOf(msg) ==
    IF msg = <<>> THEN <<>>
    ELSE IF is_image_link(msg[1]) THEN TextOf(Tail(msg))
    ELSE <<Strip(msg[1])>> \o TextOf(Tail(msg))

\* C13: a step that sends the message of a row and fails to write its status
\* leaves the row stored as it was, not done; the next tick that starts while
\* the row is stored so takes it into its snapshot as a row to deliver; a
\* repeated send for the row goes to the same user with the same text; and the
\* status of a row becomes "done" only in a step in which the message of that
\* row was sent.
C13_ResentAfterFailedWrite ==
    /\ [][\A r \in Rows :
            /\ (sends'[r] /= sends[r] /\ write_fails'[r] /= write_fails[r])
                  => (sheet' = sheet /\ ~MarkedDone(r)')
            /\ (tick.pc = "idle" /\ tick'.pc /= "idle" /\ write_fails[r] > 0 /\ ~MarkedDone(r))
                  => (/\ tick'.records[r] = sheet[r]
                      /\ tick'.i <= r
                      /\ r \in LaterRows(tick'.records, 0))
            /\ (sends'[r] /= sends[r] /\ sends[r] >= 1)
                  => (/\ last_dm'.row = r
                      /\ last_dm'.to = sheet[r].user_id
                      /\ last_dm'.content = Join(TextOf(sheet[r].revert)))
            /\ (MarkedDone(r)' /\ ~MarkedDone(r))
                  => sends'[r] = sends[r] + 1]_vars
    /\ [](\A r \in Rows : MarkedDone(r) => sends[r] >= 1)

\* The message of a row has just been sent a second time, after the status
\* write that followed its first send failed.
C13_Witness ==
    \E r \in Rows :
        /\ last_dm.row = r
        /\ sends[r] = 2
        /\ write_fails[r] = 1
        /\ last_dm.content /= <<>>

\* The tick is at the send of a row whose message nets to the empty text and
\* no attachment.
AtEmptySend ==
    /\ tick.pc = "send"
    /\ Join(tick.text_parts) = <<>>
    /\ tick.files = <<>>

\* C14: for a row whose message nets to the empty text and no attachment, the
\* step of the tick that sends it marks the row done, unless the send or the
\* status write fails for a reason other than the message being empty.
C14_EmptyMessageMarkedDone ==
    [][(AtEmptySend /\ tick' /= tick)
          => \/ sheet'[tick.i].revert_sent = Done
             \/ write_fails' /= write_fails
             \/ (sends' = sends /\ last_dm' = NoDm)]_vars

\* C18: a tick in progress is only ever continued or ended, never replaced by
\* a tick that starts anew, while rows are appended and on_ready recurs; a
\* tick starts only when none is in progress and the loop runs; and on_ready
\* while the loop runs leaves the one loop and its tick as they are, so that
\* there is never a second loop.
C18_SingleFlight ==
    /\ [][/\ tick.pc /= "idle" =>
               \/ tick'.pc = "idle"
               \/ /\ tick'.records = tick.records
                  /\ tick'.i >= tick.i
                  /\ tick.attempted \subseteq tick'.attempted
          /\ (tick.pc = "idle" /\ tick'.pc /= "idle") =>
               (loop = "running" /\ loop' = "running" /\ tick'.records = sheet)
          /\ loop = "running" => loop' \in {"running", "stopped"}
          /\ last_dm' = StartRaised => (loop' = loop /\ tick' = tick)]_vars
    /\ [](loop \in {"unstarted", "running", "stopped"})
    /\ [](tick.pc /= "idle" => loop = "running")

\* on_ready has recurred while the tick was suspended at the send of a row,
\* with a row appended since the tick read the sheet: start() raised and the
\* tick in progress is the only one.
C18_Witness ==
    /\ last_dm = StartRaised
    /\ loop = "running"
    /\ tick.pc = "send"
    /\ Len(sheet) > Len(tick.records)

\* C20: while rows are appended during a tick, every row of the tick's
\* snapshot is stored at the same index with the same user id and, once it has
\* one, the same revert message; a step that changes a status cell is the send
\* of the tick for the row it is at, it sets the status of that row to "done",
\* the message went to the user of that row, and no other row changes; a row
\* is appended with empty revert and status cells; and no message is sent for
\* a row whose revert cell is empty or that is not in the tick's snapshot.
C20_DoneOnDeliveredRow ==
    /\ [](tick.pc /= "idle" =>
            \A r \in DOMAIN tick.records :
                /\ r \in DOMAIN sheet
                /\ sheet[r].user_id = tick.records[r].user_id
                /\ tick.records[r].revert /= EmptyMsg
                      => sheet[r].revert = tick.records[r].revert)
    /\ [](\A r \in Rows :
            (r \notin DOMAIN sheet \/ sheet[r].revert = EmptyMsg) => sends[r] = 0)
    /\ [][/\ \A r \in DOMAIN sheet :
               sheet'[r].revert_sent /= sheet[r].revert_sent =>
                   /\ tick.pc = "send" /\ tick.i = r
                   /\ sheet' = [sheet EXCEPT ![r].revert_sent = Done]
                   /\ sends'[r] = sends[r] + 1
                   /\ last_dm'.row = r
                   /\ last_dm'.to = sheet[r].user_id
                   /\ last_dm'.content = Join(TextOf(sheet[r].revert))
          /\ Len(sheet') > Len(sheet) =>
               /\ sheet' = Append(sheet, sheet'[Len(sheet')])
               /\ sheet'[Len(sheet')].revert = EmptyMsg
               /\ sheet'[Len(sheet')].revert_sent = ""
               /\ UNCHANGED <<tick, sends>>
          /\ \A r \in Rows :
               sends'[r] /= sends[r] =>
                   /\ tick.pc = "send" /\ tick.i = r
                   /\ r \in DOMAIN tick.records
                   /\ sheet[r].revert /= EmptyMsg]_vars

\* A row was appended while the tick was suspended at row 1; the tick has then
\* delivered row 1 and marked it done, and goes on to row 2 of its snapshot,
\* which does not hold the appended row.
C20_Witness ==
    /\ tick.pc = "fetch_user"
    /\ tick.i = 2
    /\ last_dm.row = 1
    /\ sheet[1].revert_sent = Done
    /\ Len(tick.records) = 2
    /\ Len(sheet) = 3
    /\ sheet[3].revert = EmptyMsg
    /\ sends = <<1, 0, 0>>

-----------------------------------------------------------------------------
(* Claims about the channel sends of the announce commands.                *)

\* C15: the channel sends attempted by an invocation are at most two; none of
\* them has neither content nor files; a send with files carries no content
\* and is the last one; and a send with content is the first one.
C15_TextThenImages ==
    /\ Len(channel_sent) <= 2
    /\ \A k \in DOMAIN channel_sent :
         /\ ~(channel_sent[k].content = <<None>> /\ channel_sent[k].files = <<>>)
         /\ channel_sent[k].files /= <<>>
               => (channel_sent[k].content = <<None>> /\ k = Len(channel_sent))
         /\ channel_sent[k].content /= <<None>> => k = 1

\* The step renders the document for an admitted invocation: /announce resumed
\* after defer(), or !announce admitted.
RenderStep ==
    /\ doc_fetches'
    /\ \/ inv.pc = "deferred"
       \/ inv.pc = "idle" /\ last_check'.actor /= None /\ last_check'.result

\* The actor and the guild of the invocation that renders in this step.
RenderActor == IF inv.pc = "deferred" THEN inv.actor ELSE last_check'.actor
RenderGuild == IF inv.pc = "deferred" THEN guild ELSE NoGuild

\* The renders the document can give to the invocation of this step.
Renders ==
    {fetch_doc_content_and_images(doc, RenderGuild, outcome) : outcome \in ImageOutcomeMaps(doc)}

\* C16: for both commands, an invocation whose render is empty ends at the
\* render with the empty-document notice (or the error notice) to its actor and
\* with no channel send; an invocation goes on to the channel sends only with a
\* render that has text or images; and the step that gives the empty-document
\* notice ends the invocation and has sent nothing to the channel.
C16_EmptyDocumentNotice ==
    [][RenderStep =>
          /\ channel_sent' = <<>>
          /\ (\A r \in Renders : r.text = <<>> /\ r.images = <<>>)
                => /\ inv' = IdleInv
                   /\ reply' \in {[to |-> RenderActor, text |-> EmptyDocument],
                                  [to |-> RenderActor, text |-> ErrorSending]}
          /\ inv'.pc /= "idle"
                => /\ inv'.pc = "send_text"
                   /\ inv'.text /= <<>> \/ inv'.images /= <<>>
                   /\ \E r \in Renders : r.text = inv'.text /\ r.images = inv'.images
          /\ (inv'.pc = "idle" /\ reply'.text /= ErrorSending)
                => /\ reply' = [to |-> RenderActor, text |-> EmptyDocument]
                   /\ \E r \in Renders : r.text = <<>> /\ r.images = <<>>]_vars

\* /announce has ended with the empty-document notice for a document that
\* holds an image whose download failed, and nothing was sent to the channel.
C16_Witness ==
    /\ reply.text = EmptyDocument
    /\ reply.to /= None
    /\ inv.pc = "idle"
    /\ doc_fetches
    /\ last_check = NoCheck
    /\ channel_sent = <<>>
    /\ doc.body /= <<>>

\* The step is a channel send that raises.
SendFails ==
    /\ inv.pc \in {"send_text", "send_images"}
    /\ Len(channel_sent') = Len(channel_sent) + 1
    /\ ~channel_sent'[Len(channel_sent')].ok

\* The step is a render whose document fetch raises.
FetchFails ==
    /\ RenderStep
    /\ inv'.pc = "idle"
    /\ \/ reply'.text = ErrorSending
       \/ \A r \in Renders : r.text /= <<>> \/ r.images /= <<>>

\* C17: for both commands, the step in which the document fetch or a channel
\* send fails gives the error notice to the actor of the invocation and ends
\* the invocation, with the usage timestamp of its admission still recorded;
\* a failed channel send is the last send of its invocation; a channel send
\* is only attempted by an invocation in progress; and every admitted
\* request, failed or not, is counted in the actor's usage window.
C17_FailureReported ==
    /\ [][/\ SendFails =>
               /\ reply' = [to |-> inv.actor, text |-> ErrorSending]
               /\ inv' = IdleInv
               /\ usage_tracker' = usage_tracker
               /\ usage_tracker[inv.actor] /= <<>>
          /\ FetchFails =>
               /\ reply' = [to |-> RenderActor, text |-> ErrorSending]
               /\ channel_sent' = <<>>
               /\ usage_tracker'[RenderActor] /= <<>>
               /\ \A a \in Actors : Len(usage_tracker'[a]) >= Len(usage_tracker[a])
          /\ channel_sent' /= channel_sent =>
               \/ inv.pc \in {"send_text", "send_images"}
               \/ channel_sent' = <<>>]_vars
    /\ [](/\ \A k \in DOMAIN channel_sent :
               ~channel_sent[k].ok => k = Len(channel_sent)
          /\ (channel_sent /= <<>> /\ ~channel_sent[Len(channel_sent)].ok) => inv.pc = "idle"
          /\ \A a \in Actors : Len(usage_tracker[a]) = Len(admitted[a]))

\* The image send of an invocation failed after its text send: the actor has
\* the error notice, the invocation is over and the usage is still recorded.
C17_Witness ==
    /\ Len(channel_sent) = 2
    /\ channel_sent[1].ok
    /\ ~channel_sent[2].ok
    /\ inv.pc = "idle"
    /\ reply.text = ErrorSending
    /\ usage_tracker[reply.to] /= <<>>

====
